---- MODULE Spec2Model ----
(***************************************************************************)
(* Model of the rslash recommendation core: the ranking pipeline           *)
(* (ml/ranking.py), the embedding manager and its FAISS index              *)
(* (ml/embeddings.py) and the two serving handlers that drive them         *)
(* (backend/app/main.py: get_feed, submit_feedback).                       *)
(*                                                                         *)
(* Numbers.  Python floats are modelled in fixed point: a vector           *)
(* component x stands for x / VecScale, an exploration rate, an upvote     *)
(* ratio and an affinity weight are percentages, and a rank score is an    *)
(* integer number of 1 / ScoreUnit.                                        *)
(***************************************************************************)
EXTENDS Integers, Sequences, FiniteSets, TLC

\* ---------------------------------------------------------------- bounds
MaxEvents == 2        \* feedback events recorded in one behaviour
MaxItems == 3         \* largest num_items a feed request asks for
MaxScored == 4        \* longest scored list handed to apply_business_rules

\* ------------------------------------------------------- program constants
VecScale == 1000      \* fixed-point unit of a vector component
ScoreUnit == 840000000 \* fixed-point unit of a rank score (168 * 5000000)
NoUserRate == 50      \* exploration_rate used when the user row is absent
NewUserRate == 50     \* exploration_rate of a user auto-created by get_feed
MaxPerSubreddit == 2  \* "Max 2 posts per subreddit"
TrendingHours == 48   \* trending window
SubredditLimit == 10  \* posts taken per preferred subreddit
TopSubreddits == 3    \* preferred subreddits used
WeekHours == 168      \* freshness decay window
DefaultAge == 24      \* hours_old used when post_age_hours is falsy
FeedCandidates == 100 \* num_candidates of get_recommendations
WeightSeconds == 30   \* seconds of reading that give a like weight 1
MaxComponent == 30000 \* largest vector component whose square fits an integer

\* Python's None for a row, the index, the index file; NoVec is a JSON
\* vector column that is NULL (a vector is a pair).
None == [none |-> TRUE]
NoVec == <<>>
NoUser == "-"

\* ------------------------------------------------------------ the catalog
\* The posts table, in table (rowid) order.  emb is what the embedding model
\* returns for the post's text; the embedding column itself is state
\* (post_embedding below) because it is only filled by
\* generate_post_embeddings.  post_age_hours is the age stored when the post
\* was fetched, created_hours_ago its age now.  The second and the third post
\* get the same score from the scorer for a user without a vector.
Catalog ==
  << [subreddit |-> "a", score |-> 900, num_comments |-> 50, upvote_ratio |-> 90,
      is_video |-> FALSE, is_self |-> TRUE,  nsfw |-> FALSE,
      post_age_hours |-> 10,  created_hours_ago |-> 10,  emb |-> <<1000, 0>>],
     [subreddit |-> "a", score |-> 900, num_comments |-> 10, upvote_ratio |-> 80,
      is_video |-> FALSE, is_self |-> FALSE, nsfw |-> FALSE,
      post_age_hours |-> 24,  created_hours_ago |-> 30,  emb |-> <<600, 800>>],
     [subreddit |-> "a", score |-> 500, num_comments |-> 75, upvote_ratio |-> 70,
      is_video |-> TRUE,  is_self |-> FALSE, nsfw |-> FALSE,
      post_age_hours |-> 0,   created_hours_ago |-> 0,   emb |-> <<0, 1000>>],
     [subreddit |-> "b", score |-> 700, num_comments |-> 5,  upvote_ratio |-> 95,
      is_video |-> FALSE, is_self |-> TRUE,  nsfw |-> TRUE,
      post_age_hours |-> 5,   created_hours_ago |-> 5,   emb |-> <<800, 600>>],
     [subreddit |-> "b", score |-> 100, num_comments |-> 0,  upvote_ratio |-> 50,
      is_video |-> FALSE, is_self |-> FALSE, nsfw |-> FALSE,
      post_age_hours |-> 200, created_hours_ago |-> 200, emb |-> <<-600, 800>>] >>

Posts == 1..Len(Catalog)
Post(p) == Catalog[p]
Subreddits == {Post(p).subreddit : p \in Posts}

\* u1 is a seeded user, u2 is an id with no row yet.
UserIds == {"u1", "u2"}
InteractionTypes == {"like", "dislike", "skip"}

\* ------------------------------------------------------ sequence helpers
Range(s) == {s[i] : i \in DOMAIN s}
IsInjective(s) == \A i, j \in DOMAIN s : s[i] = s[j] => i = j
Min(a, b) == IF a <= b THEN a ELSE b
Max(a, b) == IF a >= b THEN a ELSE b
Take(s, n) == SubSeq(s, 1, Min(n, Len(s)))

\* All sequences of length n of distinct elements of S.
RECURSIVE InjSeqs(_, _)
InjSeqs(S, n) ==
  IF n = 0 THEN {<<>>}
  ELSE UNION {{Append(s, x) : x \in S \ Range(s)} : s \in InjSeqs(S, n - 1)}

\* The subsequence of s whose elements satisfy Keep.
RECURSIVE SelectSeqIn(_, _)
SelectSeqIn(s, S) ==
  IF s = <<>> THEN <<>>
  ELSE IF Head(s) \in S THEN <<Head(s)>> \o SelectSeqIn(Tail(s), S)
       ELSE SelectSeqIn(Tail(s), S)

\* ------------------------------------------------------------ vector math
ZeroVec == <<0, 0>>
Dot(u, v) == u[1] * v[1] + u[2] * v[2]
Abs(x) == IF x < 0 THEN -x ELSE x

\* floor(sqrt(x)) by Newton iteration.
RECURSIVE IsqrtIter(_, _)
IsqrtIter(x, r) ==
  LET r2 == (r + x \div r) \div 2
  IN IF r2 >= r THEN r ELSE IsqrtIter(x, r2)

Isqrt(x) == IF x <= 0 THEN 0 ELSE IF x < 4 THEN 1 ELSE IsqrtIter(x, x \div 2)

\* Division rounded to the nearest integer, b > 0.
RoundDiv(a, b) == IF a >= 0 THEN (2 * a + b) \div (2 * b) ELSE -((2 * (-a) + b) \div (2 * b))

\* np.linalg.norm of a vector whose components are in 1/unit: in 1/unit.
Norm(v) == Isqrt(Dot(v, v))

\* "norm = np.linalg.norm(v); if norm > 0: v = v / norm", the result in
\* 1/VecScale.
Normalize(v) ==
  LET n == Norm(v)
  IN IF n > 0 THEN <<RoundDiv(v[1] * VecScale, n), RoundDiv(v[2] * VecScale, n)>>
     ELSE ZeroVec

\* ------------------------------------------------------------------ state
VARIABLES
  users,           \* users table: user id -> row, or None when there is no row
  interactions,    \* interactions table: the log, in insertion order
  post_embedding,  \* posts.embedding column: post -> TRUE when it is set
  post_index,      \* EmbeddingManager.post_index: None, or [rows: the indexed posts]
  post_id_map,     \* EmbeddingManager.post_id_map: row -> post id
  index_file,      \* data/post_index.faiss and its map file: None, or the saved pair
  call,            \* the operation that ran last, its arguments and its intermediate results
  candidates,      \* what get_candidates returned last
  strategies,      \* the retrieval strategies that call ran
  scored_posts,    \* what score_candidates returned last (posts, best first)
  greedy_posts,    \* final_posts of apply_business_rules after its greedy pass
  final_posts,     \* what apply_business_rules returned last
  results,         \* what find_similar_posts returned last (post ids)
  recommendations, \* what get_recommendations / get_feed returned last (post ids)
  fb,              \* overlapping requests: worker -> its position and what it read
  rb,              \* a rebuild (_build_faiss_index) in progress
  qy               \* a query (find_similar_posts) in progress

dbvars == <<users, interactions, post_embedding>>
idxvars == <<post_index, post_id_map, index_file>>
outvars == <<candidates, strategies, scored_posts, greedy_posts, final_posts, results,
             recommendations>>
procvars == <<fb, rb, qy>>
vars == <<users, interactions, post_embedding, post_index, post_id_map, index_file,
          call, candidates, strategies, scored_posts, greedy_posts, final_posts,
          results, recommendations, fb, rb, qy>>

\* A users row.  preferred_subreddits is the JSON object as its items in
\* dict order.
UserRow(emb, prefs, rate) ==
  [user_embedding |-> emb, preferred_subreddits |-> prefs, exploration_rate |-> rate,
   total_interactions |-> 0, total_likes |-> 0, total_dislikes |-> 0]

\* The row get_feed inserts for an unknown user id.
NewUserRow == UserRow(NoVec, <<>>, NewUserRate)

\* create_demo_users: a user with learned subreddit weights and the script's
\* default exploration rate, and no preference vector before the first
\* feedback.
SeedUsers ==
  [u \in UserIds |->
     IF u = "u1"
     THEN UserRow(NoVec,
                  <<[subreddit |-> "b", weight |-> 30], [subreddit |-> "a", weight |-> 90]>>,
                  30)
     ELSE None]

AllPosts == [i \in 1..Len(Catalog) |-> i]
StalePosts == <<1, 2, 3>>

\* The index as the process finds it at start-up (RankingPipeline.__init__
\* loads the file when it exists): built over the posts ix, or never built.
IndexBuilt(ix) ==
  /\ post_index = [rows |-> ix] /\ post_id_map = ix
  /\ index_file = [index |-> ix, map |-> ix]
  /\ post_embedding = [p \in Posts |-> p \in Range(ix)]

IndexUnbuilt ==
  /\ post_index = None /\ post_id_map = <<>> /\ index_file = None
  /\ post_embedding = [p \in Posts |-> FALSE]

Workers == {1, 2}
IdleWorker == [pc |-> "idle"]

Idle == [op |-> "init", user |-> NoUser, n |-> 0, known |-> FALSE]

\* Everything but the index, as setup_db leaves it.
InitRest ==
  /\ users = SeedUsers
  /\ interactions = <<>>
  /\ call = Idle
  /\ candidates = <<>> /\ strategies = {} /\ scored_posts = <<>>
  /\ greedy_posts = <<>> /\ final_posts = <<>> /\ results = <<>>
  /\ recommendations = <<>>
  /\ fb = [w \in Workers |-> IdleWorker] /\ rb = None /\ qy = None

\* The serving process after setup: the index was built over the catalog.
Init == IndexBuilt(AllPosts) /\ InitRest

\* A process started before any build, or after one.
InitAnyIndex == (IndexUnbuilt \/ IndexBuilt(AllPosts)) /\ InitRest

\* The same, or with an index built before the last two posts were ingested.
InitStaleIndex == (IndexUnbuilt \/ IndexBuilt(StalePosts) \/ IndexBuilt(AllPosts)) /\ InitRest

\* ----------------------------------------------------------- sort and top-k
\* list.sort(key=..., reverse=True): descending and stable.  InsertDesc puts x
\* after every element whose key is >= its own.
RECURSIVE InsertDescBeforeEqual(_, _, _)
InsertDescBeforeEqual(s, x, key) ==
  IF s = <<>> THEN <<x>>
  ELSE IF key[Head(s)] > key[x] THEN <<Head(s)>> \o InsertDescBeforeEqual(Tail(s), x, key)
       ELSE <<x>> \o s

RECURSIVE InsertDesc(_, _, _)
InsertDesc(s, x, key) ==
  IF s = <<>> THEN <<x>>
  ELSE IF key[Head(s)] >= key[x] THEN <<Head(s)>> \o InsertDesc(Tail(s), x, key)
       ELSE <<x>> \o s

\* key is a function from the elements of s to integers.
RECURSIVE StableSortDesc(_, _)
StableSortDesc(s, key) ==
  IF s = <<>> THEN <<>>
  ELSE InsertDesc(StableSortDesc(SubSeq(s, 1, Len(s) - 1), key), s[Len(s)], key)

\* SQL "ORDER BY ... DESC LIMIT k" and FAISS top-k: every sequence of
\* min(k, |S|) distinct elements of S, best first under Ge, that holds the
\* best elements; rows that tie may come in any order.
RECURSIVE TopKBy(_, _, _)
TopKBy(S, ge, k) ==
  IF k <= 0 \/ S = {} THEN {<<>>}
  ELSE LET best == {x \in S : \A y \in S : ge[x][y]}
       IN UNION {{<<x>> \o t : t \in TopKBy(S \ {x}, ge, k - 1)} : x \in best}

\* "order_by(Post.score.desc())" over the posts S, as the ge of TopKBy.
ScoreGe(S) == [p \in S |-> [q \in S |-> Post(p).score >= Post(q).score]]

\* ------------------------------------------------------------ vector store
\* The index, its map, the saved file and the embedding column together.
IndexState(ix, map, file, col) ==
  [post_index |-> ix, post_id_map |-> map, index_file |-> file, post_embedding |-> col]

CurrentIndex == IndexState(post_index, post_id_map, index_file, post_embedding)

\* generate_post_embeddings: every post gets its embedding, the index is
\* built over all posts and saved.
generate_post_embeddings ==
  IndexState([rows |-> AllPosts], AllPosts, [index |-> AllPosts, map |-> AllPosts],
             [p \in Posts |-> TRUE])

\* load_index: the saved index and map replace the ones in memory.
load_index(st) ==
  IndexState([rows |-> st.index_file.index], st.index_file.map, st.index_file,
             st.post_embedding)

\* find_similar_posts, lines 128-131: with no index in memory, load it from
\* the file or else generate all embeddings and build it, inside the query.
EnsureIndex(st) ==
  IF st.post_index # None THEN st
  ELSE IF st.index_file # None THEN load_index(st)
       ELSE generate_post_embeddings

\* post_index.search(query, k): the k rows with the largest inner product
\* with the normalized query (rows hold normalized embeddings).
IndexSearch(ix, query, k) ==
  LET q == Normalize(query)
      ip == [r \in DOMAIN ix |-> Dot(q, Normalize(Post(ix[r]).emb))]
  IN TopKBy(DOMAIN ix, [r \in DOMAIN ix |-> [t \in DOMAIN ix |-> ip[r] >= ip[t]]], k)

\* "if idx in self.post_id_map: results.append(self.post_id_map[idx])".
RECURSIVE MapRows(_, _)
MapRows(rows, map) ==
  IF rows = <<>> THEN <<>>
  ELSE IF Head(rows) \in DOMAIN map
       THEN <<map[Head(rows)]>> \o MapRows(Tail(rows), map)
       ELSE MapRows(Tail(rows), map)

\* Every result find_similar_posts can return on a built index.
find_similar_posts(ix, map, query, k) ==
  {MapRows(rows, map) : rows \in IndexSearch(ix, query, k)}

\* ------------------------------------------------------ candidate generator
\* "if user.user_embedding:" and "if user.preferred_subreddits:": Python
\* truth of a JSON column (None and the empty object are false; a list of
\* numbers, zeros included, is true).  A NULL preferred_subreddits and an
\* empty object are both <<>>: the code only ever tests the column's truth.
HasEmbedding(row) == row.user_embedding # NoVec
HasPreferences(row) == row.preferred_subreddits # <<>>

\* Lines 47-51: the posts the user has any interaction with.
seen_post_ids(u) ==
  {interactions[i].post_id : i \in {j \in DOMAIN interactions : interactions[j].user_id = u}}

\* Lines 54-64: similarity, k = int(num_candidates * 0.4).
SimilarityCandidates(row, N, st, seen) ==
  IF HasEmbedding(row)
  THEN {SelectSeqIn(r, Posts \ seen) :
          r \in find_similar_posts(st.post_index.rows, st.post_id_map, row.user_embedding,
                                   (N * 4) \div 10)}
  ELSE {<<>>}

\* Lines 67-73: trending, ordered by score / (post_age_hours + 1).
VelocityGe(S) ==
  [p \in S |-> [q \in S |->
     Post(p).score * (Post(q).post_age_hours + 1)
       >= Post(q).score * (Post(p).post_age_hours + 1)]]

TrendingIgnoringSeen(N, seen) ==
  LET recent == {p \in Posts : Post(p).created_hours_ago < TrendingHours}
  IN TopKBy(recent, VelocityGe(recent), (N * 3) \div 10)

TrendingCandidates(N, seen) ==
  LET recent == {p \in Posts : Post(p).created_hours_ago < TrendingHours /\ p \notin seen}
  IN TopKBy(recent, VelocityGe(recent), (N * 3) \div 10)

\* Lines 76-89: the three heaviest preferred subreddits, ten posts of each.
top_subreddits(row) ==
  LET items == row.preferred_subreddits
      weight == [x \in Range(items) |-> x.weight]
  IN Take(StableSortDesc(items, weight), TopSubreddits)

RECURSIVE SubredditPosts(_, _)
SubredditPosts(subs, seen) ==
  IF subs = <<>> THEN {<<>>}
  ELSE LET unseen == {p \in Posts : Post(p).subreddit = Head(subs).subreddit /\ p \notin seen}
       IN {a \o b : a \in TopKBy(unseen, ScoreGe(unseen), SubredditLimit),
                    b \in SubredditPosts(Tail(subs), seen)}

SubredditCandidates(row, seen) ==
  IF HasPreferences(row) THEN SubredditPosts(top_subreddits(row), seen) ELSE {<<>>}

\* Lines 92-97: exploration, random unseen posts.
ExplorationIgnoringSeen(N, seen) ==
  InjSeqs(Posts, Min(N \div 10, Cardinality(Posts)))

ExplorationCandidates(N, seen) ==
  InjSeqs(Posts \ seen, Min(N \div 10, Cardinality(Posts \ seen)))

\* Lines 104-109: drop every later occurrence of a post.
KeepDuplicates(s) == s

RECURSIVE RemoveDuplicatesFrom(_, _)
RemoveDuplicatesFrom(s, seen) ==
  IF s = <<>> THEN <<>>
  ELSE IF Head(s) \in seen THEN RemoveDuplicatesFrom(Tail(s), seen)
       ELSE <<Head(s)>> \o RemoveDuplicatesFrom(Tail(s), seen \cup {Head(s)})

unique_candidates(s) == RemoveDuplicatesFrom(s, {})

\* Lines 43-44: the posts with the highest score, for a user with no row.
PopularUnordered(N) == InjSeqs(Posts, Min(N, Cardinality(Posts)))

PopularPosts(N) == TopKBy(Posts, ScoreGe(Posts), N)

\* Lines 54-97: what the four strategies can return for an existing user, as
\* <<similarity, trending, subreddit, exploration>>.
StrategyResults(row, seen, N, st) ==
  {<<a, b, c, d>> :
     a \in SimilarityCandidates(row, N, st, seen),
     b \in TrendingCandidates(N, seen),
     c \in SubredditCandidates(row, seen),
     d \in ExplorationCandidates(N, seen)}

\* Lines 100-101: the strategies' results one after the other.
Concatenated(parts) == parts[1] \o parts[2] \o parts[3] \o parts[4]

\* Lines 100-111: concatenated, duplicates removed, cut to num_candidates.
CombinedCutFirst(parts, N) == unique_candidates(Take(Concatenated(parts), N))

Combined(parts, N) == Take(unique_candidates(Concatenated(parts)), N)

\* get_candidates: every pool the call can return (the exploration sample
\* and the order of tied rows are the database's choice).  st is the index
\* the similarity query runs on.
get_candidates(row, seen, N, st) ==
  IF row = None THEN PopularPosts(N)
  ELSE {Combined(parts, N) : parts \in StrategyResults(row, seen, N, st)}

\* The strategies that call runs.
strategies_run(row) ==
  IF row = None THEN {}
  ELSE {"trending", "exploration"}
       \cup (IF HasEmbedding(row) THEN {"similarity"} ELSE {})
       \cup (IF HasPreferences(row) THEN {"subreddit"} ELSE {})

\* The index after a get_candidates call: the similarity strategy is the
\* only one that queries it.
IndexAfterCandidates(row) ==
  IF row # None /\ HasEmbedding(row) THEN EnsureIndex(CurrentIndex)
  ELSE CurrentIndex

SetIndex(st) ==
  /\ post_index' = st.post_index
  /\ post_id_map' = st.post_id_map
  /\ index_file' = st.index_file
  /\ post_embedding' = st.post_embedding

\* -------------------------------------------------------------------- scorer
\* Lines 131-136: similarity * 0.4, when the user and the post have a vector.
SimilarityTerm(row, p, col) ==
  IF row # None /\ HasEmbedding(row) /\ col[p]
  THEN Dot(row.user_embedding, Post(p).emb)
         * (((ScoreUnit \div (VecScale * VecScale)) * 4) \div 10)
  ELSE 0

\* Lines 139-144: min(engagement_score, 1.0) * 0.3.
EngagementTerm(p) ==
  LET engagement == Post(p).score * ((ScoreUnit \div 10000) * 3)
                      + Post(p).num_comments * ((ScoreUnit \div 1000) * 2)
                      + Post(p).upvote_ratio * (ScoreUnit \div 1000)
  IN (Min(engagement, ScoreUnit) \div 10) * 3

\* Lines 147-149: max(0, 1 - hours_old / 168) * 0.2.
FreshnessTerm(p) ==
  LET hours_old == IF Post(p).post_age_hours # 0 THEN Post(p).post_age_hours
                   ELSE DefaultAge
  IN Max(0, ScoreUnit - hours_old * (ScoreUnit \div WeekHours)) \div 5

\* Lines 152-154: preferred_subreddits.get(post.subreddit, 0) * 0.1.
AffinityTerm(row, p) ==
  IF row # None /\ HasPreferences(row)
  THEN LET hit == {i \in DOMAIN row.preferred_subreddits :
                     row.preferred_subreddits[i].subreddit = Post(p).subreddit}
       IN IF hit = {} THEN 0
          ELSE row.preferred_subreddits[CHOOSE i \in hit : TRUE].weight * (ScoreUnit \div 1000)
  ELSE 0

Score(row, p, col) ==
  SimilarityTerm(row, p, col) + EngagementTerm(p) + FreshnessTerm(p) + AffinityTerm(row, p)

\* score_candidates: the candidates sorted by score, descending and stable.
score_candidates(row, cands, col) ==
  StableSortDesc(cands, [p \in Range(cands) |-> Score(row, p, col)])

\* --------------------------------------------------------------- diversifier
ContentType(p) ==
  IF Post(p).is_video THEN "video" ELSE IF Post(p).is_self THEN "text" ELSE "link"

\* subreddit_count[s] and content_types[t] over the accepted posts.
subreddit_count(acc, s) == Cardinality({i \in DOMAIN acc : Post(acc[i]).subreddit = s})
content_types(acc, t) == Cardinality({i \in DOMAIN acc : ContentType(acc[i]) = t})

\* Lines 185-201: the three rules that skip a post, given the posts accepted
\* so far.
SkipsVideos(acc, p, n) ==
  \/ subreddit_count(acc, Post(p).subreddit) >= MaxPerSubreddit
  \/ content_types(acc, ContentType(p)) >= n \div 2
  \/ Post(p).nsfw
  \/ Post(p).is_video

Skips(acc, p, n) ==
  \/ subreddit_count(acc, Post(p).subreddit) >= MaxPerSubreddit
  \/ content_types(acc, ContentType(p)) >= n \div 2
  \/ Post(p).nsfw

\* Lines 182-209: the greedy pass; it stops once num_items posts are accepted.
RECURSIVE GreedyPassLateStop(_, _, _)
GreedyPassLateStop(rest, acc, n) ==
  IF rest = <<>> THEN acc
  ELSE IF Skips(acc, Head(rest), n) THEN GreedyPassLateStop(Tail(rest), acc, n)
       ELSE IF Len(acc) + 1 > n THEN Append(acc, Head(rest))
            ELSE GreedyPassLateStop(Tail(rest), Append(acc, Head(rest)), n)

RECURSIVE GreedyPass(_, _, _)
GreedyPass(rest, acc, n) ==
  IF rest = <<>> THEN acc
  ELSE IF Skips(acc, Head(rest), n) THEN GreedyPass(Tail(rest), acc, n)
       ELSE IF Len(acc) + 1 >= n THEN Append(acc, Head(rest))
            ELSE GreedyPass(Tail(rest), Append(acc, Head(rest)), n)

exploration_rate(row) == IF row # None THEN row.exploration_rate ELSE NoUserRate

\* Line 212: int(num_items * exploration_rate).
num_exploration(row, n) == (n * exploration_rate(row)) \div 100

\* Lines 225-227: final_posts[idx] = exp_post over the zipped pairs.
Substitute(final, idxs, exps) ==
  LET m == Min(Len(idxs), Len(exps))
  IN [i \in DOMAIN final |->
        IF \E j \in 1..m : idxs[j] = i
        THEN exps[CHOOSE j \in 1..m : idxs[j] = i]
        ELSE final[i]]

\* Lines 212-227: the exploration substitution; random.sample orders the
\* tail positions, the database draws random posts from the whole table.
ExplorationAnywhere(final, ne) ==
  IF ne > 0 /\ Len(final) > ne
  THEN {Substitute(final, idxs, exps) :
          idxs \in InjSeqs(1..Len(final), ne),
          exps \in InjSeqs(Posts, Min(ne, Cardinality(Posts)))}
  ELSE {final}

ExplorationSubstitution(final, ne) ==
  IF ne > 0 /\ Len(final) > ne
  THEN {Substitute(final, idxs, exps) :
          idxs \in InjSeqs((Len(final) - ne + 1)..Len(final), ne),
          exps \in InjSeqs(Posts, Min(ne, Cardinality(Posts)))}
  ELSE {final}

\* apply_business_rules: every list the call can return.
apply_business_rules(scored, row, n) ==
  ExplorationSubstitution(GreedyPass(scored, <<>>, n), num_exploration(row, n))

\* --------------------------------------------------------- preference tracker
\* update_user_embedding_online, lines 229-251: the vector stored for a user
\* whose stored vector was emb (NoVec when unset), learning_rate = 0.1.
\* like is 0.9 * old + 0.1 * post and dislike is old - 0.05 * post, here
\* times 10 and times 20: the normalization cancels the factor.
UpdatedEmbeddingFullStep(emb, p, type) ==
  LET old == IF emb # NoVec THEN emb ELSE ZeroVec
      e == Post(p).emb
      moved == IF type = "like" THEN <<9 * old[1] + e[1], 9 * old[2] + e[2]>>
               ELSE IF type = "dislike" THEN <<old[1] - e[1], old[2] - e[2]>>
               ELSE old
  IN Normalize(moved)

UpdatedEmbeddingUnnormalized(emb, p, type) ==
  LET old == IF emb # NoVec THEN emb ELSE ZeroVec
      e == Post(p).emb
  IN IF type = "like"
     THEN <<RoundDiv(9 * old[1] + e[1], 10), RoundDiv(9 * old[2] + e[2], 10)>>
     ELSE IF type = "dislike"
          THEN <<RoundDiv(20 * old[1] - e[1], 20), RoundDiv(20 * old[2] - e[2], 20)>>
          ELSE old

updated_user_embedding(emb, p, type) ==
  LET old == IF emb # NoVec THEN emb ELSE ZeroVec
      e == Post(p).emb
      moved == IF type = "like" THEN <<9 * old[1] + e[1], 9 * old[2] + e[2]>>
               ELSE IF type = "dislike" THEN <<20 * old[1] - e[1], 20 * old[2] - e[2]>>
               ELSE old
  IN Normalize(moved)

\* Lines 223-227: the update returns early without a user, a post or a post
\* embedding.
UpdateApplies(row, p, col) == row # None /\ p \in Posts /\ col[p]

\* submit_feedback, lines 172-176, on the row the handler read.
StatisticsWithoutSkips(row, type) ==
  [row EXCEPT !.total_interactions = IF type \in {"like", "dislike"} THEN @ + 1 ELSE @,
              !.total_likes = IF type = "like" THEN @ + 1 ELSE @,
              !.total_dislikes = IF type = "dislike" THEN @ + 1 ELSE @]

updated_statistics(row, type) ==
  [row EXCEPT !.total_interactions = @ + 1,
              !.total_likes = IF type = "like" THEN @ + 1 ELSE @,
              !.total_dislikes = IF type = "dislike" THEN @ + 1 ELSE @]

\* Lines 163-168: the interactions row.
Interaction(u, p, type, t) ==
  [user_id |-> u, post_id |-> p, interaction_type |-> type, time_spent |-> t]

\* submit_feedback followed by update_user_embedding_online, uninterrupted:
\* the users row afterwards.
feedback_applied(row, p, type, col) ==
  LET counted == updated_statistics(row, type)
  IN IF UpdateApplies(counted, p, col)
     THEN [counted EXCEPT !.user_embedding = updated_user_embedding(@, p, type)]
     ELSE counted

NoPost == 0
TimeSpent == {45}

\* ------------------------------------------------------------------ handlers
\* The pipeline's outputs belong to the call that ran last.
ClearOutputs ==
  /\ candidates' = <<>> /\ strategies' = {} /\ scored_posts' = <<>>
  /\ greedy_posts' = <<>> /\ final_posts' = <<>> /\ recommendations' = <<>>

\* A direct call of the first stage.
CandidateSizes == {3, 10}

GetCandidates(u, N) ==
  LET st == IndexAfterCandidates(users[u])
  IN /\ call = Idle
     /\ IF users[u] = None
        THEN /\ \E c \in get_candidates(users[u], seen_post_ids(u), N, st) : candidates' = c
             /\ call' = [op |-> "get_candidates", user |-> u, n |-> N, known |-> FALSE,
                         parts |-> <<>>]
        ELSE \E parts \in StrategyResults(users[u], seen_post_ids(u), N, st) :
               /\ candidates' = Combined(parts, N)
               /\ call' = [op |-> "get_candidates", user |-> u, n |-> N, known |-> TRUE,
                           parts |-> parts]
     /\ strategies' = strategies_run(users[u])
     /\ SetIndex(st)
     /\ scored_posts' = <<>> /\ greedy_posts' = <<>> /\ final_posts' = <<>>
     /\ recommendations' = <<>>
     /\ UNCHANGED <<users, interactions, results, fb, rb, qy>>

\* get_recommendations, lines 239-267, for the users row `row`: candidates,
\* then (unless there are none) scoring and the business rules.
RecommendWithFallback(row, u, n) ==
  LET st == IndexAfterCandidates(row)
  IN /\ SetIndex(st)
     /\ strategies' = strategies_run(row)
     /\ \E c \in get_candidates(row, seen_post_ids(u), FeedCandidates, st) :
          /\ candidates' = c
          /\ LET pool == IF c = <<>> THEN CHOOSE f \in PopularPosts(FeedCandidates) : TRUE
                         ELSE c
                 scored == score_candidates(row, pool, st.post_embedding)
             IN /\ scored_posts' = scored
                /\ greedy_posts' = GreedyPass(scored, <<>>, n)
                /\ \E f \in apply_business_rules(scored, row, n) :
                     final_posts' = f /\ recommendations' = f

Recommend(row, u, n) ==
  LET st == IndexAfterCandidates(row)
  IN /\ SetIndex(st)
     /\ strategies' = strategies_run(row)
     /\ \E c \in get_candidates(row, seen_post_ids(u), FeedCandidates, st) :
          /\ candidates' = c
          /\ IF c = <<>>
             THEN /\ recommendations' = <<>>
                  /\ scored_posts' = <<>> /\ greedy_posts' = <<>> /\ final_posts' = <<>>
             ELSE LET scored == score_candidates(row, c, st.post_embedding)
                  IN /\ scored_posts' = scored
                     /\ greedy_posts' = GreedyPass(scored, <<>>, n)
                     /\ \E f \in apply_business_rules(scored, row, n) :
                          final_posts' = f /\ recommendations' = f

\* A direct call of the pipeline (as test_ranking does).
GetRecommendations(u, n) ==
  /\ call = Idle
  /\ Recommend(users[u], u, n)
  /\ call' = [op |-> "get_recommendations", user |-> u, n |-> n, known |-> users[u] # None]
  /\ UNCHANGED <<users, interactions, results, fb, rb, qy>>

\* get_feed, lines 113-149: the user row is created when missing, and an
\* empty recommendation list is replaced by the most popular posts.
GetFeed(u, n) ==
  LET row == IF users[u] = None THEN NewUserRow ELSE users[u]
  IN /\ call = Idle
     /\ users' = [users EXCEPT ![u] = row]
     /\ LET st == IndexAfterCandidates(row)
        IN /\ SetIndex(st)
           /\ strategies' = strategies_run(row)
           /\ \E c \in get_candidates(row, seen_post_ids(u), FeedCandidates, st) :
                /\ candidates' = c
                /\ IF c = <<>>
                   THEN /\ \E f \in PopularPosts(n) : recommendations' = f
                        /\ scored_posts' = <<>> /\ greedy_posts' = <<>>
                        /\ final_posts' = <<>>
                   ELSE LET scored == score_candidates(row, c, st.post_embedding)
                        IN /\ scored_posts' = scored
                           /\ greedy_posts' = GreedyPass(scored, <<>>, n)
                           /\ \E f \in apply_business_rules(scored, row, n) :
                                /\ final_posts' = f
                                /\ \E g \in (IF f = <<>> THEN PopularPosts(n) ELSE {f}) :
                                     recommendations' = g
     /\ call' = [op |-> "get_feed", user |-> u, n |-> n, known |-> TRUE]
     /\ UNCHANGED <<interactions, results, fb, rb, qy>>

\* submit_feedback, lines 156-197, run without interruption: 404 without a
\* user or a post; otherwise the interaction is logged, the statistics are
\* bumped and committed, and the preference vector is updated.
SubmitFeedbackUncheckedPost(u, p, type, t) ==
  /\ call = Idle
  /\ Len(interactions) < MaxEvents
  /\ IF users[u] = None
     THEN UNCHANGED <<users, interactions>>
     ELSE /\ interactions' = Append(interactions, Interaction(u, p, type, t))
          /\ users' = [users EXCEPT ![u] = feedback_applied(@, p, type, post_embedding)]
  /\ call' = [op |-> "submit_feedback", user |-> u, n |-> 0,
              known |-> users[u] # None /\ p \in Posts]
  /\ ClearOutputs
  /\ UNCHANGED <<post_embedding, post_index, post_id_map, index_file, results, fb, rb, qy>>

SubmitFeedbackEveryUser(u, p, type, t) ==
  /\ call = Idle
  /\ Len(interactions) < MaxEvents
  /\ IF users[u] = None \/ p \notin Posts
     THEN UNCHANGED <<users, interactions>>
     ELSE /\ interactions' = Append(interactions, Interaction(u, p, type, t))
          /\ users' = [v \in UserIds |->
                         IF users[v] = None THEN None
                         ELSE feedback_applied(users[v], p, type, post_embedding)]
  /\ call' = [op |-> "submit_feedback", user |-> u, n |-> 0,
              known |-> users[u] # None /\ p \in Posts]
  /\ ClearOutputs
  /\ UNCHANGED <<post_embedding, post_index, post_id_map, index_file, results, fb, rb, qy>>

SubmitFeedbackUpsert(u, p, type, t) ==
  /\ call = Idle
  /\ Len(interactions) < MaxEvents
  /\ IF users[u] = None \/ p \notin Posts
     THEN UNCHANGED <<users, interactions>>
     ELSE /\ interactions' =
               Append(SelectSeq(interactions,
                                LAMBDA e : ~(e.user_id = u /\ e.post_id = p)),
                      Interaction(u, p, type, t))
          /\ users' = [users EXCEPT ![u] = feedback_applied(@, p, type, post_embedding)]
  /\ call' = [op |-> "submit_feedback", user |-> u, n |-> 0,
              known |-> users[u] # None /\ p \in Posts]
  /\ ClearOutputs
  /\ UNCHANGED <<post_embedding, post_index, post_id_map, index_file, results, fb, rb, qy>>

SubmitFeedback(u, p, type, t) ==
  /\ call = Idle
  /\ Len(interactions) < MaxEvents
  /\ IF users[u] = None \/ p \notin Posts
     THEN UNCHANGED <<users, interactions>>
     ELSE /\ interactions' = Append(interactions, Interaction(u, p, type, t))
          /\ users' = [users EXCEPT ![u] = feedback_applied(@, p, type, post_embedding)]
  /\ call' = [op |-> "submit_feedback", user |-> u, n |-> 0,
              known |-> users[u] # None /\ p \in Posts]
  /\ ClearOutputs
  /\ UNCHANGED <<post_embedding, post_index, post_id_map, index_file, results, fb, rb, qy>>

\* generate_post_embeddings run as a maintenance call, start to end.
RebuildIndex ==
  /\ call = Idle
  /\ SetIndex(generate_post_embeddings)
  /\ call' = [op |-> "generate_post_embeddings", user |-> NoUser, n |-> 0, known |-> FALSE]
  /\ ClearOutputs
  /\ UNCHANGED <<users, interactions, results, fb, rb, qy>>

\* The handler returns: its response is handed to the caller and the next
\* request can be served (the handlers are coroutines without an await, so
\* one event loop runs them one at a time).
Return ==
  /\ call # Idle
  /\ call' = Idle
  /\ ClearOutputs
  /\ results' = <<>>
  /\ UNCHANGED <<users, interactions, post_embedding, post_index, post_id_map,
                 index_file, fb, rb, qy>>

\* The candidate generator over the feedback log.
Next ==
  \/ \E u \in UserIds, N \in CandidateSizes : GetCandidates(u, N)
  \/ \E u \in UserIds, p \in Posts \cup {NoPost}, type \in InteractionTypes, t \in TimeSpent :
       SubmitFeedback(u, p, type, t)
  \/ RebuildIndex
  \/ Return

Spec == Init /\ [][Next]_vars

\* Feed requests, from a process that may not have built its index.
NextFeed ==
  \/ \E u \in UserIds, n \in 1..MaxItems : GetRecommendations(u, n)
  \/ \E u \in UserIds, n \in 1..MaxItems : GetFeed(u, n)
  \/ Return

SpecFeed == InitAnyIndex /\ [][NextFeed]_vars

\* ------------------------------------------------- the diversifier on its own
ScoredLists == UNION {InjSeqs(Posts, k) : k \in 0..MaxScored}

\* apply_business_rules on any list of distinct posts, best first.
ApplyBusinessRules(scored, u, n) ==
  /\ call = Idle
  /\ scored_posts' = scored
  /\ greedy_posts' = GreedyPass(scored, <<>>, n)
  /\ \E f \in apply_business_rules(scored, users[u], n) : final_posts' = f
  /\ call' = [op |-> "apply_business_rules", user |-> u, n |-> n, known |-> users[u] # None]
  /\ UNCHANGED <<users, interactions, post_embedding, post_index, post_id_map,
                 index_file, candidates, strategies, results, recommendations, fb, rb, qy>>

NextRules ==
  \/ \E scored \in ScoredLists, u \in UserIds, n \in 1..MaxItems :
       ApplyBusinessRules(scored, u, n)
  \/ Return

SpecRules == Init /\ [][NextRules]_vars

\* ------------------------------------------- overlapping submit_feedback calls
\* Two workers serve one feedback request each against the same database;
\* a worker's steps are its database reads and its commits.

\* main.py 156-160: the handler reads the user and the post.
FbBegin(w, u, p, type, t) ==
  /\ fb[w].pc = "idle"
  /\ fb' = [fb EXCEPT ![w] =
              IF users[u] = None \/ p \notin Posts THEN [pc |-> "not found"]
              ELSE [pc |-> "read", user |-> u, post |-> p, type |-> type,
                    time_spent |-> t, row |-> users[u]]]
  /\ UNCHANGED <<users, interactions, post_embedding, post_index, post_id_map,
                 index_file, call, candidates, strategies, scored_posts, greedy_posts,
                 final_posts, results, recommendations, rb, qy>>

\* main.py 163-185: the interaction is added and the statistics computed
\* from the row as read; the commit writes the attributes that changed.
FbCommit(w) ==
  /\ fb[w].pc = "read"
  /\ LET c == fb[w]
         new == updated_statistics(c.row, c.type)
     IN /\ interactions' =
             Append(interactions, Interaction(c.user, c.post, c.type, c.time_spent))
        /\ users' =
             [users EXCEPT ![c.user] =
                [@ EXCEPT !.total_interactions = new.total_interactions,
                          !.total_likes = IF c.type = "like" THEN new.total_likes ELSE @,
                          !.total_dislikes =
                            IF c.type = "dislike" THEN new.total_dislikes ELSE @]]
  /\ fb' = [fb EXCEPT ![w].pc = "committed"]
  /\ UNCHANGED <<post_embedding, post_index, post_id_map, index_file, call, candidates,
                 strategies, scored_posts, greedy_posts, final_posts, results,
                 recommendations, rb, qy>>

\* embeddings.py 223-227: update_user_embedding_online reads the user and
\* the post in a session of its own.
FbLoadBeforeCommit(w) ==
  /\ fb[w].pc = "read"
  /\ LET c == fb[w]
     IN fb' = [fb EXCEPT ![w] =
                 IF UpdateApplies(users[c.user], c.post, post_embedding)
                 THEN [c EXCEPT !.pc = "loaded", !.row = users[c.user]]
                 ELSE [c EXCEPT !.pc = "done"]]
  /\ UNCHANGED <<users, interactions, post_embedding, post_index, post_id_map,
                 index_file, call, candidates, strategies, scored_posts, greedy_posts,
                 final_posts, results, recommendations, rb, qy>>

FbLoad(w) ==
  /\ fb[w].pc = "committed"
  /\ LET c == fb[w]
     IN fb' = [fb EXCEPT ![w] =
                 IF UpdateApplies(users[c.user], c.post, post_embedding)
                 THEN [c EXCEPT !.pc = "loaded", !.row = users[c.user]]
                 ELSE [c EXCEPT !.pc = "done"]]
  /\ UNCHANGED <<users, interactions, post_embedding, post_index, post_id_map,
                 index_file, call, candidates, strategies, scored_posts, greedy_posts,
                 final_posts, results, recommendations, rb, qy>>

\* embeddings.py 229-252: the vector computed from the one read is stored.
FbStore(w) ==
  /\ fb[w].pc = "loaded"
  /\ LET c == fb[w]
     IN users' = [users EXCEPT ![c.user].user_embedding =
                    updated_user_embedding(c.row.user_embedding, c.post, c.type)]
  /\ fb' = [fb EXCEPT ![w].pc = "done"]
  /\ UNCHANGED <<interactions, post_embedding, post_index, post_id_map, index_file,
                 call, candidates, strategies, scored_posts, greedy_posts, final_posts,
                 results, recommendations, rb, qy>>

NextFeedback ==
  \/ \E w \in Workers, u \in UserIds, p \in Posts \cup {NoPost},
        type \in InteractionTypes, t \in TimeSpent : FbBegin(w, u, p, type, t)
  \/ \E w \in Workers : FbCommit(w)
  \/ \E w \in Workers : FbLoad(w)
  \/ \E w \in Workers : FbStore(w)

SpecFeedback == Init /\ [][NextFeedback]_vars

\* ------------------------------------------------ a rebuild beside a query
Saved(ix) == [index |-> ix, map |-> ix]

\* generate_post_embeddings 41-70 up to _build_faiss_index line 83: the
\* posts get their embeddings and post_index becomes a new, empty index.
BuildCreate ==
  /\ rb = None
  /\ post_embedding' = [p \in Posts |-> TRUE]
  /\ post_index' = [rows |-> <<>>]
  /\ rb' = [pc |-> "created"]
  /\ UNCHANGED <<users, interactions, post_id_map, index_file, call, candidates,
                 strategies, scored_posts, greedy_posts, final_posts, results,
                 recommendations, fb, qy>>

\* _build_faiss_index 86-89: the embeddings are added to the index.
BuildAdd ==
  /\ rb # None /\ rb.pc = "created"
  /\ post_index' = [rows |-> AllPosts]
  /\ rb' = [pc |-> "added"]
  /\ UNCHANGED <<users, interactions, post_embedding, post_id_map, index_file, call,
                 candidates, strategies, scored_posts, greedy_posts, final_posts,
                 results, recommendations, fb, qy>>

\* _build_faiss_index 92-97: the id map is replaced and both are saved.
BuildMap ==
  /\ rb # None /\ rb.pc = "added"
  /\ post_id_map' = AllPosts
  /\ index_file' = Saved(AllPosts)
  /\ rb' = None
  /\ UNCHANGED <<users, interactions, post_embedding, post_index, call, candidates,
                 strategies, scored_posts, greedy_posts, final_posts, results,
                 recommendations, fb, qy>>

\* embeddings.py main() run as a script: another process generates the
\* embeddings and saves its index; this process's memory is not touched.
ExternalBuild ==
  /\ index_file # Saved(AllPosts)
  /\ post_embedding' = [p \in Posts |-> TRUE]
  /\ index_file' = Saved(AllPosts)
  /\ UNCHANGED <<users, interactions, post_index, post_id_map, call, candidates,
                 strategies, scored_posts, greedy_posts, final_posts, results,
                 recommendations, fb, rb, qy>>

QueryVectors == {<<600, 800>>, <<1000, 0>>, ZeroVec}
QuerySizes == {2, 4}

\* What lines 128-131 of find_similar_posts run.
IndexLoading(st) ==
  IF st.post_index # None THEN "nothing"
  ELSE IF st.index_file # None THEN "load_index" ELSE "generate_post_embeddings"

\* find_similar_posts 128-138: load or build when there is no index, then
\* search the index.
QuerySearch(query, k) ==
  /\ qy = None
  /\ LET st == EnsureIndex(CurrentIndex)
     IN /\ SetIndex(st)
        /\ \E rows \in IndexSearch(st.post_index.rows, query, k) :
             qy' = [pc |-> "searched", rows |-> rows, index |-> st.post_index.rows,
                    map |-> <<>>, ran |-> IndexLoading(CurrentIndex),
                    before |-> [post_index |-> post_index, index_file |-> index_file]]
  /\ UNCHANGED <<users, interactions, call, candidates, strategies, scored_posts,
                 greedy_posts, final_posts, results, recommendations, fb, rb>>

\* find_similar_posts 141-146: the rows found are mapped to post ids.
QueryMap ==
  /\ qy # None /\ qy.pc = "searched"
  /\ results' = MapRows(qy.rows, post_id_map)
  /\ qy' = [qy EXCEPT !.pc = "done", !.map = post_id_map]
  /\ UNCHANGED <<users, interactions, post_embedding, post_index, post_id_map,
                 index_file, call, candidates, strategies, scored_posts, greedy_posts,
                 final_posts, recommendations, fb, rb>>

QueryReturn ==
  /\ qy # None /\ qy.pc = "done"
  /\ qy' = None
  /\ results' = <<>>
  /\ UNCHANGED <<users, interactions, post_embedding, post_index, post_id_map,
                 index_file, call, candidates, strategies, scored_posts, greedy_posts,
                 final_posts, recommendations, fb, rb>>

NextIndex ==
  \/ BuildCreate
  \/ BuildAdd
  \/ BuildMap
  \/ ExternalBuild
  \/ \E query \in QueryVectors, k \in QuerySizes : QuerySearch(query, k)
  \/ QueryMap
  \/ QueryReturn

SpecIndex == InitStaleIndex /\ [][NextIndex]_vars

\* ------------------------------------------------ the serving process at large
\* Feed requests and feedback against a process that may have started before
\* the index was built, beside builds by the maintenance script.
ServeSizes == {2}
ServePosts == {2, NoPost}

NextServe ==
  \/ \E u \in UserIds, n \in ServeSizes : GetRecommendations(u, n)
  \/ \E u \in UserIds, n \in ServeSizes : GetFeed(u, n)
  \/ \E u \in UserIds, p \in ServePosts, type \in InteractionTypes, t \in TimeSpent :
       SubmitFeedback(u, p, type, t)
  \/ RebuildIndex
  \/ ExternalBuild
  \/ Return

SpecServe == InitAnyIndex /\ [][NextServe]_vars

\* ---------------------------------------------------- overlapping get_feed calls
\* Two workers serve one feed request each against the same database.

\* main.py 113: the handler looks the user up.
FeedLookup(w, u, n) ==
  /\ fb[w].pc = "idle"
  /\ fb' = [fb EXCEPT ![w] = [pc |-> "looked up", user |-> u, n |-> n,
                              found |-> users[u] # None]]
  /\ UNCHANGED <<users, interactions, post_embedding, post_index, post_id_map,
                 index_file, call, candidates, strategies, scored_posts, greedy_posts,
                 final_posts, results, recommendations, rb, qy>>

\* main.py 114-122: a user that was not found is added and committed; user_id
\* is the primary key, so the commit raises IntegrityError when the row
\* exists by then and the request ends in an error.
FeedCreate(w) ==
  /\ fb[w].pc = "looked up"
  /\ LET c == fb[w]
     IN IF c.found
        THEN /\ fb' = [fb EXCEPT ![w].pc = "ready"]
             /\ UNCHANGED users
        ELSE IF users[c.user] # None
             THEN /\ fb' = [fb EXCEPT ![w].pc = "error"]
                  /\ UNCHANGED users
             ELSE /\ fb' = [fb EXCEPT ![w].pc = "ready"]
                  /\ users' = [users EXCEPT ![c.user] = NewUserRow]
  /\ UNCHANGED <<interactions, post_embedding, post_index, post_id_map, index_file,
                 call, candidates, strategies, scored_posts, greedy_posts, final_posts,
                 results, recommendations, rb, qy>>

\* main.py 125-149: the pipeline runs, and an empty recommendation list is
\* replaced by the most popular posts.
FeedServe(w) ==
  /\ fb[w].pc = "ready"
  /\ LET c == fb[w]
         row == users[c.user]
         st == IndexAfterCandidates(row)
     IN /\ SetIndex(st)
        /\ strategies' = strategies_run(row)
        /\ \E cs \in get_candidates(row, seen_post_ids(c.user), FeedCandidates, st) :
             /\ candidates' = cs
             /\ LET scored == IF cs = <<>> THEN <<>>
                              ELSE score_candidates(row, cs, st.post_embedding)
                IN /\ scored_posts' = scored
                   /\ greedy_posts' = GreedyPass(scored, <<>>, c.n)
                   /\ \E f \in apply_business_rules(scored, row, c.n) :
                        /\ final_posts' = f
                        /\ \E g \in (IF f = <<>> THEN PopularPosts(c.n) ELSE {f}) :
                             recommendations' = g
        /\ call' = [op |-> "get_feed", user |-> c.user, n |-> c.n, known |-> TRUE]
  /\ fb' = [fb EXCEPT ![w].pc = "done"]
  /\ UNCHANGED <<users, interactions, results, rb, qy>>

NextFeedRace ==
  \/ \E w \in Workers, u \in UserIds, n \in ServeSizes : FeedLookup(w, u, n)
  \/ \E w \in Workers : FeedCreate(w)
  \/ \E w \in Workers : FeedServe(w)

SpecFeedRace == Init /\ [][NextFeedRace]_vars

\* ------------------------------------------------------ the preference tracker
\* The sum of the vectors vec[i] over the indices in I.
RECURSIVE SumVec(_, _)
SumVec(I, vec) ==
  IF I = {} THEN ZeroVec
  ELSE LET i == CHOOSE j \in I : TRUE
           rest == SumVec(I \ {i}, vec)
       IN <<vec[i][1] + rest[1], vec[i][2] + rest[2]>>

\* Lines 154-157 and 179-182: the user's interactions of one type.
InteractionsOf(u, type, log) ==
  {i \in DOMAIN log : log[i].user_id = u /\ log[i].interaction_type = type}

\* Lines 171-173 and 185-187: those whose post exists and has an embedding.
Embedded(I, log, col) == {i \in I : log[i].post_id \in Posts /\ col[log[i].post_id]}

\* Line 175: min(time_spent / 30.0, 2.0), in thirtieths.
LikeWeightUncapped(t) == t

like_weight(t) == Min(t, 2 * WeightSeconds)

\* Lines 162-167: with no like, the mean embedding of the first 100 posts that
\* have one (in 1/VecScale), or the zero vector; it is not normalized.
average_embedding(col) ==
  LET have == {p \in Posts : col[p]}
      total == SumVec(have, [p \in have |-> Post(p).emb])
  IN IF have # {}
     THEN <<RoundDiv(total[1], Cardinality(have)), RoundDiv(total[2], Cardinality(have))>>
     ELSE ZeroVec

\* A vector scaled down to components that Normalize can square.
Rescaled(v) ==
  LET k == (Max(Abs(v[1]), Abs(v[2])) \div MaxComponent) + 1
  IN <<RoundDiv(v[1], k), RoundDiv(v[2], k)>>

\* Lines 190-204: mean of the weighted liked embeddings minus 0.3 times the
\* mean of the disliked ones, normalized.  The sums are taken times
\* 300 * (number liked) * (number disliked): the normalization cancels it.
recomputed_embedding(u, log, col) ==
  LET liked == Embedded(InteractionsOf(u, "like", log), log, col)
      disliked == Embedded(InteractionsOf(u, "dislike", log), log, col)
      nl == Max(Cardinality(liked), 1)
      nd == Max(Cardinality(disliked), 1)
      L == SumVec(liked, [i \in liked |->
                     <<Post(log[i].post_id).emb[1] * like_weight(log[i].time_spent),
                       Post(log[i].post_id).emb[2] * like_weight(log[i].time_spent)>>])
      D == SumVec(disliked, [i \in disliked |-> Post(log[i].post_id).emb])
  IN Normalize(Rescaled(<<10 * nd * L[1] - 90 * nl * D[1],
                          10 * nd * L[2] - 90 * nl * D[2]>>))

\* generate_user_embedding: the vector it returns and whether it stores it
\* in the user's row (lines 207-210; the no-likes path returns at 165/167).
generate_user_embedding(u, log, col, row) ==
  IF InteractionsOf(u, "like", log) = {}
  THEN [returned |-> average_embedding(col), stored |-> FALSE]
  ELSE [returned |-> recomputed_embedding(u, log, col), stored |-> row # None]

\* The maintenance script's call for one user id.
GenerateUserEmbedding(u) ==
  /\ call = Idle
  /\ LET g == generate_user_embedding(u, interactions, post_embedding, users[u])
     IN /\ users' = IF g.stored THEN [users EXCEPT ![u].user_embedding = g.returned]
                    ELSE users
        /\ call' = [op |-> "generate_user_embedding", user |-> u, n |-> 0,
                    known |-> users[u] # None, returned |-> g.returned]
  /\ ClearOutputs
  /\ UNCHANGED <<interactions, post_embedding, post_index, post_id_map, index_file,
                 results, fb, rb, qy>>

\* Feedback of every type the handler accepts (interaction_type is any
\* string), beside batch recomputes, before or after the posts are embedded.
TrackerTypes == InteractionTypes \cup {"click"}

NextTracker ==
  \/ \E u \in UserIds, p \in Posts \cup {NoPost}, type \in TrackerTypes, t \in TimeSpent :
       SubmitFeedback(u, p, type, t)
  \/ \E u \in UserIds : GenerateUserEmbedding(u)
  \/ RebuildIndex
  \/ Return

SpecTracker == InitAnyIndex /\ [][NextTracker]_vars

\* ------------------------------------------------------- the scorer on its own
\* score_candidates on any list of distinct posts.
ScoreCandidates(u, cands) ==
  /\ call = Idle
  /\ candidates' = cands
  /\ scored_posts' = score_candidates(users[u], cands, post_embedding)
  /\ call' = [op |-> "score_candidates", user |-> u, n |-> 0, known |-> users[u] # None]
  /\ UNCHANGED <<users, interactions, post_embedding, post_index, post_id_map,
                 index_file, strategies, greedy_posts, final_posts, results,
                 recommendations, fb, rb, qy>>

NextScorer ==
  \/ \E u \in UserIds, cands \in ScoredLists : ScoreCandidates(u, cands)
  \/ Return

SpecScorer == Init /\ [][NextScorer]_vars

\* ------------------------------------------- the pipeline after recorded feedback
\* The users row after the submit_feedback calls for the events evs, in order.
RECURSIVE Replayed(_, _, _)
Replayed(row, evs, col) ==
  IF evs = <<>> THEN row
  ELSE Replayed(feedback_applied(row, Head(evs).post_id, Head(evs).interaction_type, col),
                Tail(evs), col)

\* The posts of S in table order.
RECURSIVE Ascending(_)
Ascending(S) ==
  IF S = {} THEN <<>>
  ELSE LET p == CHOOSE q \in S : \A r \in S : q <= r
       IN <<p>> \o Ascending(S \ {p})

\* Feedback logs of the seeded user: one event of one type on each post of a
\* set of posts, the whole catalog included.
Histories ==
  {[i \in 1..Cardinality(S) |-> Interaction("u1", Ascending(S)[i], type, 45)] :
     S \in SUBSET Posts, type \in InteractionTypes}

\* The serving process with a built index, after the feedback of a history.
InitHistory ==
  /\ IndexBuilt(AllPosts)
  /\ \E log \in Histories :
       /\ interactions = log
       /\ users = [SeedUsers EXCEPT !["u1"] = Replayed(@, log, [p \in Posts |-> TRUE])]
  /\ call = Idle
  /\ candidates = <<>> /\ strategies = {} /\ scored_posts = <<>>
  /\ greedy_posts = <<>> /\ final_posts = <<>> /\ results = <<>>
  /\ recommendations = <<>>
  /\ fb = [w \in Workers |-> IdleWorker] /\ rb = None /\ qy = None

NextHistory ==
  \/ \E u \in UserIds, n \in 1..MaxItems : GetRecommendations(u, n)
  \/ \E u \in UserIds, p \in Posts, type \in InteractionTypes, t \in TimeSpent :
       SubmitFeedback(u, p, type, t)
  \/ Return

SpecHistory == InitHistory /\ [][NextHistory]_vars

\* ----------------------------------------------------- batch recompute on its own
\* Reading times of a feedback event: the request's default, and times below,
\* at and above the cap of the like weight.
Durations == {0, 45, 60, 90}
BatchPosts == {1, 2, 3}

\* Logs of likes and dislikes of the seeded user.
BatchLogs ==
  UNION {[1..k -> {Interaction("u1", p, type, t) :
                     p \in BatchPosts, type \in {"like", "dislike"}, t \in Durations}] :
           k \in 0..MaxEvents}

\* The maintenance script started after the feedback of one of these logs.
InitBatch ==
  /\ IndexBuilt(AllPosts)
  /\ \E log \in BatchLogs :
       /\ interactions = log
       /\ users = [SeedUsers EXCEPT !["u1"] = Replayed(@, log, [p \in Posts |-> TRUE])]
  /\ call = Idle
  /\ candidates = <<>> /\ strategies = {} /\ scored_posts = <<>>
  /\ greedy_posts = <<>> /\ final_posts = <<>> /\ results = <<>>
  /\ recommendations = <<>>
  /\ fb = [w \in Workers |-> IdleWorker] /\ rb = None /\ qy = None

NextBatch ==
  \/ \E u \in UserIds : GenerateUserEmbedding(u)
  \/ Return

SpecBatch == InitBatch /\ [][NextBatch]_vars

\* ================================================================ properties
\* ---- candidate generator (Spec)

\* C2: the pool get_candidates returns holds no post id more than once.
C2_PoolHasNoDuplicates == call.op = "get_candidates" => IsInjective(candidates)

\* A pool of an existing user assembled from strategies that select the same
\* posts.
C2_Witness ==
  /\ call.op = "get_candidates" /\ call.known
  /\ {"similarity", "trending", "subreddit"} \subseteq strategies
  /\ Len(candidates) >= 3

\* C3: for an existing user, after any recorded feedback, the pool holds no
\* post the user has an interaction with.
C3_PoolExcludesSeen ==
  (call.op = "get_candidates" /\ call.known)
    => Range(candidates) \cap seen_post_ids(call.user) = {}

\* A non-empty pool, exploration included, for a user who has seen posts.
C3_Witness ==
  /\ call.op = "get_candidates" /\ call.known
  /\ seen_post_ids(call.user) # {}
  /\ call.n \div 10 > 0
  /\ candidates # <<>>

\* ---- diversifier (SpecRules)
\* C4: the list apply_business_rules returns, exploration substitution
\* included, holds at most 2 posts of any one subreddit.
C4_AtMostTwoPerCategory ==
  call.op = "apply_business_rules"
    => \A s \in Subreddits : subreddit_count(final_posts, s) <= MaxPerSubreddit

\* C5: the list apply_business_rules returns, exploration substitution
\* included, holds no nsfw post.
C5_NoUnsafePost ==
  call.op = "apply_business_rules"
    => \A i \in DOMAIN final_posts : ~Post(final_posts[i]).nsfw

\* C6 as stated: exactly n posts whenever the scored list holds at least n,
\* and never more than n.
C6_ExactlyRequestedCount ==
  call.op = "apply_business_rules"
    => /\ Len(final_posts) <= call.n
       /\ Len(scored_posts) >= call.n => Len(final_posts) = call.n

\* C6 amended: never more than n posts, and fewer than n only when the list
\* is exhausted: every post of it that the greedy pass did not accept is one
\* a rule skips (nsfw, 2 of its subreddit, n \div 2 of its content type).
C6_CountUnlessSkipped ==
  call.op = "apply_business_rules"
    => /\ Len(final_posts) <= call.n
       /\ Len(final_posts) = Len(greedy_posts)
       /\ Range(greedy_posts) \subseteq Range(scored_posts)
       /\ Len(final_posts) < call.n
            => \A p \in Range(scored_posts) \ Range(greedy_posts) :
                 Skips(greedy_posts, p, call.n)

\* A list with at least n posts of which the rules let fewer than n through.
C6_Witness ==
  /\ call.op = "apply_business_rules"
  /\ call.n >= 2
  /\ Len(scored_posts) >= call.n
  /\ final_posts # <<>>
  /\ Len(final_posts) < call.n

\* ---- pipeline (SpecFeed)
RawScoreDescending(list) ==
  \A i, j \in DOMAIN list : i < j => Post(list[i]).score >= Post(list[j]).score

\* The k posts with the highest raw score, best first.
IsTopByRawScore(list, k) ==
  /\ IsInjective(list)
  /\ Len(list) = Min(k, Cardinality(Posts))
  /\ RawScoreDescending(list)
  /\ \A p \in Range(list), q \in Posts \ Range(list) : Post(p).score >= Post(q).score

\* C7 as stated (the request for 10 is the largest request here, the catalog
\* holds more posts than it): for a user with no row and no history,
\* get_recommendations returns exactly the n posts with the highest raw score,
\* in descending raw-score order.
C7_NewUserFeedIsTopRawScore ==
  (call.op = "get_recommendations" /\ ~call.known /\ call.n = MaxItems)
    => IsTopByRawScore(recommendations, call.n)

\* C7 amended: for a user with no row, the candidate pool is the posts with
\* the highest raw score, best first; the feed is at most n of the catalog's
\* posts.
C7_NewUserPoolIsTopRawScore ==
  (call.op = "get_recommendations" /\ ~call.known)
    => /\ IsTopByRawScore(candidates, FeedCandidates)
       /\ Len(recommendations) <= call.n
       /\ Range(recommendations) \subseteq Posts

\* A feed for a user with no row that is not the top of the raw-score order.
C7_Witness ==
  /\ call.op = "get_recommendations" /\ ~call.known /\ call.n = MaxItems
  /\ recommendations # <<>>
  /\ ~IsTopByRawScore(recommendations, call.n)

ColdStart(row) ==
  \/ row = None
  \/ /\ row.user_embedding \in {NoVec, ZeroVec}
     /\ ~HasPreferences(row)

\* C8: for an unknown user, or one with a zero or absent preference vector
\* and no subreddit weights (the user get_feed has just created included),
\* get_candidates runs no strategy and returns the top posts by raw score.
C8_ColdStartUsesPopularity ==
  (call.op \in {"get_recommendations", "get_feed"} /\ ColdStart(users[call.user]))
    => /\ strategies = {}
       /\ IsTopByRawScore(candidates, FeedCandidates)

\* ---- overlapping feedback (SpecFeedback)
Serial(row, c) == feedback_applied(row, c.post, c.type, post_embedding)

\* C1: when two submit_feedback calls for one user have both finished, the
\* user's stored vector and counters are those of running the two calls one
\* after the other in some order.
C1_NoLostUpdate ==
  \A w1, w2 \in Workers :
    (w1 # w2 /\ fb[w1].pc = "done" /\ fb[w2].pc = "done" /\ fb[w1].user = fb[w2].user)
      => users[fb[w1].user] \in
           {Serial(Serial(SeedUsers[fb[w1].user], fb[w1]), fb[w2]),
            Serial(Serial(SeedUsers[fb[w1].user], fb[w2]), fb[w1])}

\* ---- vector store (SpecIndex)
\* C9: a query issued while no index has been built finds nothing and runs
\* no index loading or construction.
C9_UnbuiltQueryReturnsEmpty ==
  (qy # None /\ qy.before.post_index = None /\ qy.before.index_file = None)
    => /\ qy.rows = <<>>
       /\ qy.ran = "nothing"

\* C10: a query beside a rebuild works on the complete index of before the
\* rebuild with its map, or on the complete new index with its map.
C10_QuerySeesWholeIndex ==
  (qy # None /\ qy.pc = "done")
    => /\ qy.index \in {StalePosts, AllPosts}
       /\ qy.map = qy.index

\* ---- the serving process (SpecServe)
\* C11: a get_recommendations call, also one made before the index is built,
\* leaves the index, its map and file, the posts' embeddings, the
\* interaction log and every users row unchanged.
C11_FeedOnlyReads ==
  [][(call = Idle /\ call'.op = "get_recommendations")
       => UNCHANGED <<post_index, post_id_map, index_file, post_embedding,
                      interactions, users>>]_vars

\* ---- overlapping feed requests (SpecFeedRace)
\* C12: two feed requests, in any interleaving, end without an error, and a
\* finished request leaves a users row for its user id.
C12_FeedsNeedNoCoordination ==
  \A w \in Workers :
    /\ fb[w].pc # "error"
    /\ fb[w].pc = "done" => users[fb[w].user] # None

\* ---- scorer (SpecScorer)
ScoreOf(p) == Score(users[call.user], p, post_embedding)
PlaceIn(list, p) == CHOOSE i \in DOMAIN list : list[i] = p

\* C20: score_candidates returns the candidates ordered by descending score,
\* and candidates with equal scores keep the order they had in the input.
C20_SortedAndStable ==
  call.op = "score_candidates"
    => /\ Len(scored_posts) = Len(candidates)
       /\ Range(scored_posts) = Range(candidates)
       /\ \A i, j \in DOMAIN scored_posts :
            i < j => /\ ScoreOf(scored_posts[i]) >= ScoreOf(scored_posts[j])
                     /\ ScoreOf(scored_posts[i]) = ScoreOf(scored_posts[j])
                          => PlaceIn(candidates, scored_posts[i])
                               < PlaceIn(candidates, scored_posts[j])

\* A scored list with two posts of equal score that the input held in the
\* order opposite to the posts' table order, and a post the sort moved.
C20_Witness ==
  /\ call.op = "score_candidates"
  /\ scored_posts # candidates
  /\ \E i, j \in DOMAIN scored_posts :
       /\ i < j
       /\ scored_posts[i] > scored_posts[j]
       /\ ScoreOf(scored_posts[i]) = ScoreOf(scored_posts[j])

\* ---- preference tracker (SpecTracker)
\* A vector of norm 1, up to the rounding of its components to 1/VecScale.
IsUnit(v) == Abs(Dot(v, v) - VecScale * VecScale) <= 2 * VecScale + 1
IsUnitOrZero(v) == v = ZeroVec \/ IsUnit(v)

\* C13: after any online updates and batch recomputes, every stored
\* preference vector, and every vector generate_user_embedding returns (its
\* no-likes fallback included), is unit-norm or the zero vector.
C13_VectorsUnitOrZero ==
  /\ \A u \in UserIds :
       (users[u] # None /\ HasEmbedding(users[u]))
         => IsUnitOrZero(users[u].user_embedding)
  /\ call.op = "generate_user_embedding" => IsUnitOrZero(call.returned)

\* This step is a submit_feedback call that recorded an event of this type.
RecordsFeedback(types) ==
  /\ call = Idle
  /\ call'.op = "submit_feedback"
  /\ Len(interactions') = Len(interactions) + 1
  /\ interactions'[Len(interactions')].interaction_type \in types

LikedPost == interactions'[Len(interactions')].post_id
StoredBefore == users[call'.user].user_embedding
StoredAfter == users'[call'.user].user_embedding

\* C14: feedback of a type other than like and dislike leaves the user's
\* stored preference vector as it was, an absent or zero one included.
C14_OtherTypesLeaveVector ==
  [][RecordsFeedback(TrackerTypes \ {"like", "dislike"})
       => StoredAfter = StoredBefore]_vars

C18_LikeFixedPoint ==
  [][(/\ RecordsFeedback({"like"})
      /\ post_embedding[LikedPost]
      /\ StoredBefore \in {NoVec, ZeroVec, Post(LikedPost).emb})
       => StoredAfter = Post(LikedPost).emb]_vars

\* Two likes of one post by a user who started without a vector.
C18_Witness ==
  /\ call.op = "submit_feedback" /\ call.known
  /\ Len(interactions) = 2
  /\ interactions[1].user_id = call.user /\ interactions[2].user_id = call.user
  /\ interactions[1].interaction_type = "like"
  /\ interactions[2].interaction_type = "like"
  /\ interactions[1].post_id = interactions[2].post_id
  /\ users[call.user].user_embedding = Post(interactions[2].post_id).emb

\* ---- feedback in the serving process (SpecServe)
\* This step is a submit_feedback call.
IsFeedback == call = Idle /\ call'.op = "submit_feedback"

\* The log after the step is the log before it, or that plus one event.
LogExtended ==
  /\ Len(interactions') \in {Len(interactions), Len(interactions) + 1}
  /\ SubSeq(interactions', 1, Len(interactions)) = interactions

\* C15: feedback naming a user or a post that does not exist changes no
\* users row and no counter and logs nothing.
C15_UnknownFeedbackIsNoOp ==
  [][(IsFeedback /\ ~call'.known) => UNCHANGED <<users, interactions>>]_vars

\* Feedback for an unknown user or post arriving after feedback that was
\* recorded and gave a user a preference vector.
C15_Witness ==
  /\ call.op = "submit_feedback" /\ ~call.known
  /\ interactions # <<>>
  /\ \E u \in UserIds : users[u] # None /\ HasEmbedding(users[u])

\* C16: a submit_feedback call for user u changes no other users row, no
\* post embedding and nothing of the index, logs at most one event, of u,
\* and runs no stage of the ranking pipeline.
C16_FeedbackTouchesOneUser ==
  [][IsFeedback
       => /\ \A v \in UserIds \ {call'.user} : users'[v] = users[v]
          /\ UNCHANGED <<post_embedding, post_index, post_id_map, index_file>>
          /\ LogExtended
          /\ \A i \in DOMAIN interactions' \ DOMAIN interactions :
               interactions'[i].user_id = call'.user
          /\ strategies' = {} /\ candidates' = <<>> /\ scored_posts' = <<>>
          /\ final_posts' = <<>> /\ recommendations' = <<>>]_vars

\* Recorded feedback of one user while another user has a row.
C16_Witness ==
  /\ call.op = "submit_feedback" /\ call.known
  /\ interactions # <<>>
  /\ HasEmbedding(users[call.user])
  /\ \E v \in UserIds \ {call.user} : users[v] # None

\* C19: every step leaves the logged events in place, a successful
\* submit_feedback adds exactly one event at the end, and nothing else adds.
C19_LogAppendOnly ==
  [][/\ LogExtended
     /\ (IsFeedback /\ call'.known) <=> Len(interactions') = Len(interactions) + 1]_vars

\* A second event recorded for a user and post already in the log.
C19_Witness ==
  /\ call.op = "submit_feedback" /\ call.known
  /\ Len(interactions) >= 2
  /\ \E i \in 1..(Len(interactions) - 1) :
       /\ interactions[i].user_id = interactions[Len(interactions)].user_id
       /\ interactions[i].post_id = interactions[Len(interactions)].post_id

\* ---- the pipeline after recorded feedback (SpecHistory)
\* C21: when get_candidates returns an empty pool, get_recommendations
\* returns an empty list: nothing is scored, no rule runs and no popular post
\* is put in its place.
C21_EmptyPoolGivesEmptyFeed ==
  (call.op = "get_recommendations" /\ candidates = <<>>)
    => /\ recommendations = <<>>
       /\ scored_posts = <<>> /\ greedy_posts = <<>> /\ final_posts = <<>>

\* A call for a user who has feedback on every post of the catalog.
C21_Witness ==
  /\ call.op = "get_recommendations" /\ call.known
  /\ seen_post_ids(call.user) = Posts
  /\ candidates = <<>>

\* ---- batch recompute (SpecBatch)
\* The weight the batch recompute gives a like, in thirtieths: 1.5 for 45
\* seconds, 2.0 from 60 seconds on, and seconds / 30 below that.
ClaimedWeight(t) == IF t >= 60 THEN 60 ELSE IF t = 45 THEN 45 ELSE t

\* The mean of the liked vectors, each times its weight, minus 0.3 times the
\* mean of the disliked vectors, times 300 * likes * dislikes.
ClaimedSignal(u) ==
  LET liked == InteractionsOf(u, "like", interactions)
      disliked == InteractionsOf(u, "dislike", interactions)
      nl == Max(Cardinality(liked), 1)
      nd == Max(Cardinality(disliked), 1)
      L == SumVec(liked, [i \in liked |->
                     <<ClaimedWeight(interactions[i].time_spent) * Post(interactions[i].post_id).emb[1],
                       ClaimedWeight(interactions[i].time_spent) * Post(interactions[i].post_id).emb[2]>>])
      D == SumVec(disliked, [i \in disliked |-> Post(interactions[i].post_id).emb])
  IN <<10 * nd * L[1] - 3 * 30 * nl * D[1], 10 * nd * L[2] - 3 * 30 * nl * D[2]>>

\* C22: for a user with a like, generate_user_embedding returns the
\* normalized difference of the mean of the liked vectors, each weighted by
\* min(seconds / 30, 2.0), and 0.3 times the plain mean of the disliked
\* vectors.
C22_LikesWeightedByDuration ==
  (call.op = "generate_user_embedding"
     /\ InteractionsOf(call.user, "like", interactions) # {})
    => call.returned = Normalize(Rescaled(ClaimedSignal(call.user)))

\* A recompute over a 45-second like and a like above the cap, of two posts,
\* and one over a like above the cap and a dislike.
C22_Witness ==
  /\ call.op = "generate_user_embedding" /\ call.known
  /\ Len(interactions) >= 2
  /\ interactions[1].interaction_type = "like"
  /\ interactions[1].post_id # interactions[2].post_id
  /\ \/ /\ interactions[1].time_spent = 45
        /\ interactions[2].interaction_type = "like"
        /\ interactions[2].time_spent = 90
     \/ /\ interactions[1].time_spent = 90
        /\ interactions[2].interaction_type = "dislike"
  /\ users[call.user].user_embedding = call.returned

\* ---- the greedy pass (SpecRules)
\* The posts the greedy pass had accepted when it visited the i-th scored
\* post.
AcceptedBefore(i) == SelectSeqIn(SubSeq(scored_posts, 1, i - 1), Range(greedy_posts))

\* ceil(n / 2).
HalfRoundedUp(n) == (n + 1) \div 2

\* C23: the greedy pass accepts every safe post it visits while fewer than n
\* posts are accepted, fewer than 2 of the post's subreddit and fewer than
\* ceil(n / 2) of its content type.
C23_TypeCapIsHalfRoundedUp ==
  call.op = "apply_business_rules"
    => \A i \in DOMAIN scored_posts :
         LET p == scored_posts[i]
             acc == AcceptedBefore(i)
         IN (/\ ~Post(p).nsfw
             /\ Len(acc) < call.n
             /\ subreddit_count(acc, Post(p).subreddit) < MaxPerSubreddit
             /\ content_types(acc, ContentType(p)) < HalfRoundedUp(call.n))
              => p \in Range(greedy_posts)

\* ---- the pool's order (Spec)
\* The place of the first occurrence of x in s.
FirstAt(s, x) == CHOOSE i \in DOMAIN s : s[i] = x /\ \A j \in 1..(i - 1) : s[j] # x

\* C24: for an existing user the pool holds at most N posts and is the first
\* N posts of similarity, trending, subreddit, exploration in that order,
\* each post at the place of its first occurrence.
C24_PoolKeepsFirstOccurrences ==
  (call.op = "get_candidates" /\ call.known)
    => LET all == Concatenated(call.parts)
       IN /\ Len(candidates) = Min(call.n, Cardinality(Range(all)))
          /\ Range(candidates) \subseteq Range(all)
          /\ \A i, j \in DOMAIN candidates :
               i < j => FirstAt(all, candidates[i]) < FirstAt(all, candidates[j])
          /\ \A x \in Range(candidates), y \in Range(all) \ Range(candidates) :
               FirstAt(all, x) < FirstAt(all, y)

\* A pool cut to N whose strategies returned a post twice and more than N
\* posts together.
C24_Witness ==
  /\ call.op = "get_candidates" /\ call.known
  /\ call.parts[1] # <<>>
  /\ ~IsInjective(Concatenated(call.parts))
  /\ Cardinality(Range(Concatenated(call.parts))) > call.n
  /\ Len(candidates) = call.n

\* ---- exploration substitution (SpecRules)
\* floor(requested_count * exploration_rate) of the call that ran last.
ClaimedExploration ==
  (call.n * (IF users[call.user] # None THEN users[call.user].exploration_rate
             ELSE NoUserRate)) \div 100

\* C25: the list apply_business_rules returns is as long as the list its
\* greedy pass accepted and differs from it at most in the last
\* num_exploration places, and in none when the accepted list is not longer
\* than num_exploration.
C25_SubstitutionStaysInTail ==
  call.op = "apply_business_rules"
    => /\ Len(final_posts) = Len(greedy_posts)
       /\ \A i \in DOMAIN greedy_posts :
            (i <= Len(greedy_posts) - ClaimedExploration
               \/ Len(greedy_posts) <= ClaimedExploration)
              => final_posts[i] = greedy_posts[i]

\* A call whose substitution replaced a post, with accepted posts before the
\* tail.
C25_Witness ==
  /\ call.op = "apply_business_rules"
  /\ ClaimedExploration >= 1
  /\ Len(greedy_posts) > ClaimedExploration + 1
  /\ final_posts # greedy_posts

\* A call whose accepted list is not longer than num_exploration.
C25_WitnessShortList ==
  /\ call.op = "apply_business_rules"
  /\ ClaimedExploration >= 1
  /\ greedy_posts # <<>>
  /\ Len(greedy_posts) <= ClaimedExploration

\* ---- the freshness term (SpecScorer)
\* 0.2 * max(0, 1 - age_hours / 168), in 1 / ScoreUnit.
ClaimedFreshness(age) == Max(0, ScoreUnit - age * (ScoreUnit \div WeekHours)) \div 5

\* C26: the score of every scored post is its similarity, engagement and
\* affinity terms plus 0.2 * max(0, 1 - age_hours / 168) for its stored age;
\* a post that is 0 hours old gets the whole 0.2.
C26_FreshnessFollowsAge ==
  call.op = "score_candidates"
    => \A p \in Range(scored_posts) :
         /\ ScoreOf(p) = SimilarityTerm(users[call.user], p, post_embedding)
                           + EngagementTerm(p) + AffinityTerm(users[call.user], p)
                           + ClaimedFreshness(Post(p).post_age_hours)
         /\ Post(p).post_age_hours = 0
              => ScoreOf(p) - SimilarityTerm(users[call.user], p, post_embedding)
                   - EngagementTerm(p) - AffinityTerm(users[call.user], p)
                 = ScoreUnit \div 5

\* ---- the feed without exploration (SpecRules)
\* The list is in non-increasing order of the score the scorer gives the
\* call's user.
ScoreDescending(list) ==
  \A i, j \in DOMAIN list : i < j => ScoreOf(list[i]) >= ScoreOf(list[j])

\* C27: with num_exploration = 0 and a scored list in score order, the
\* returned list is what the greedy pass accepted, a subsequence of the scored
\* list and so in non-increasing score order, and every scored post before
\* the last accepted one that is not returned is nsfw, or 2 posts of its
\* subreddit or the cap of posts of its content type were accepted before it.
C27_FeedIsGreedySubsequence ==
  (call.op = "apply_business_rules" /\ ClaimedExploration = 0
     /\ ScoreDescending(scored_posts))
    => /\ final_posts = greedy_posts
       /\ Range(final_posts) \subseteq Range(scored_posts)
       /\ \A i, j \in DOMAIN final_posts :
            i < j => PlaceIn(scored_posts, final_posts[i]) < PlaceIn(scored_posts, final_posts[j])
       /\ ScoreDescending(final_posts)
       /\ \A i \in DOMAIN scored_posts :
            (/\ final_posts # <<>>
             /\ i < PlaceIn(scored_posts, final_posts[Len(final_posts)])
             /\ scored_posts[i] \notin Range(final_posts))
              => \/ Post(scored_posts[i]).nsfw
                 \/ subreddit_count(AcceptedBefore(i), Post(scored_posts[i]).subreddit)
                      >= MaxPerSubreddit
                 \/ content_types(AcceptedBefore(i), ContentType(scored_posts[i]))
                      >= call.n \div 2

\* A call without exploration on a list in score order, in which a safe post
\* was passed over before the last accepted one.
C27_Witness ==
  /\ call.op = "apply_business_rules" /\ ClaimedExploration = 0
  /\ ScoreDescending(scored_posts)
  /\ Len(final_posts) >= 2
  /\ \E i \in DOMAIN scored_posts :
       /\ i < PlaceIn(scored_posts, final_posts[Len(final_posts)])
       /\ scored_posts[i] \notin Range(final_posts)
       /\ ~Post(scored_posts[i]).nsfw

\* ---- the counters (SpecServe)
\* The number of logged events of user u whose type is in types.
EventCount(u, types) ==
  Cardinality({i \in DOMAIN interactions :
                 interactions[i].user_id = u /\ interactions[i].interaction_type \in types})

\* C28: after submit_feedback calls run one at a time, every user's
\* total_interactions is the number of the user's logged events, total_likes
\* and total_dislikes are the numbers of like and dislike events among them,
\* and likes plus dislikes do not exceed the total; an id without a row has
\* no event.
C28_CountersMatchLog ==
  \A u \in UserIds :
    IF users[u] = None THEN EventCount(u, InteractionTypes) = 0
    ELSE /\ users[u].total_interactions = EventCount(u, InteractionTypes)
         /\ users[u].total_likes = EventCount(u, {"like"})
         /\ users[u].total_dislikes = EventCount(u, {"dislike"})
         /\ users[u].total_likes + users[u].total_dislikes <= users[u].total_interactions

\* Two users with feedback, one event a like or a dislike and one a skip.
C28_Witness ==
  /\ call.op = "submit_feedback" /\ call.known
  /\ \E u, v \in UserIds :
       /\ u # v
       /\ EventCount(u, {"like", "dislike"}) >= 1
       /\ EventCount(v, {"skip"}) >= 1

\* ---- the order of the handler's writes (SpecFeedback)
\* The event of the request worker w serves.
EventOf(w) == Interaction(fb[w].user, fb[w].post, fb[w].type, fb[w].time_spent)

\* C29: every step that changes a user's stored preference vector belongs to
\* a submit_feedback request of that user whose event is already in the
\* interaction log, its post in the user's seen posts.
C29_EventLoggedBeforeVector ==
  [][\A u \in UserIds :
       (users[u] # None /\ users'[u].user_embedding # users[u].user_embedding)
         => \E w \in Workers :
              /\ fb[w].pc = "loaded" /\ fb'[w].pc = "done"
              /\ fb[w].user = u
              /\ EventOf(w) \in Range(interactions)
              /\ fb[w].post \in seen_post_ids(u)]_vars

\* A request that has stored a vector while the other request of the same
\* user has read the user and not yet committed.
C29_Witness ==
  \E w, v \in Workers :
    /\ fb[w].pc = "done" /\ fb[v].pc = "read"
    /\ fb[w].user = fb[v].user
    /\ HasEmbedding(users[fb[w].user])
    /\ EventOf(w) \in Range(interactions)
    /\ EventOf(v) \notin Range(interactions)

\* ---- the feed after recorded feedback (SpecHistory)
\* C30: for an existing user with num_exploration = 0, after any recorded
\* feedback, the list get_recommendations returns holds no post twice and no
\* post the user has an interaction with.
C30_FeedFreshAndDistinct ==
  (call.op = "get_recommendations" /\ call.known /\ ClaimedExploration = 0)
    => /\ IsInjective(recommendations)
       /\ Range(recommendations) \cap seen_post_ids(call.user) = {}

\* A feed of two or more posts for a user with a preference vector and with
\* feedback on posts the trending strategy would select.
C30_Witness ==
  /\ call.op = "get_recommendations" /\ call.known /\ ClaimedExploration = 0
  /\ HasEmbedding(users[call.user])
  /\ "similarity" \in strategies
  /\ \E p \in seen_post_ids(call.user) : Post(p).created_hours_ago < TrendingHours
  /\ Len(recommendations) >= 2

====
